---- MODULE Spec2Model ----
(***************************************************************************)
(* Model of icecast_exporter.go: the Exporter's metric state, Collect and  *)
(* the scrape goroutine it starts, and the two-shape JSON decode.          *)
(*                                                                         *)
(* Every Collect call is run by one of NumProcs concurrent callers (the    *)
(* HTTP handler goroutines of promhttp).  A call starts its own scrape     *)
(* goroutine (line 162) and an unbuffered channel `status` (line 161); the *)
(* two meet at the send of line 230 / the receive of line 170, or at the   *)
(* close of line 187.                                                      *)
(***************************************************************************)
EXTENDS Integers, Sequences, FiniteSets, TLC

\* ------------------------------------------------------------- bounds
\* concurrent callers of Collect
NumProcs == 2
\* Collect calls made in one run
MaxCalls == 2
\* longest "source" array the upstream sends
MaxSources == 2

Procs == 1..NumProcs

\* ------------------------------------------------- upstream documents
\* A timestamp text in the layout "2006-01-02T15:04:05-0700" is a wall-clock
\* reading (read as if UTC) and a zone offset (east of UTC).  Any other text
\* (and the JSON literal null) makes time.Parse fail.
\* Time is counted in hours since the Unix epoch, so that time.Time{} fits
\* a 32-bit integer: 403224 is 2016-01-01T00:00:00 (1451606400 s), zone 1
\* is +0100, and every timestamp stands on a whole hour.
TimeText(w, z) == [kind |-> "time", wall |-> w, zone |-> z]
Malformed == [kind |-> "malformed"]
Absent == [kind |-> "absent"]

\* time.Time{}.Unix() (-62135596800 s): the value of an ISO8601 field the
\* decoder never set.
ZeroTimeUnix == -17259888

\* time.Parse followed by Time().Unix(): the instant is the wall-clock
\* reading moved back by the zone offset.
ParseUnix(text) == text.wall - text.zone

\* Lines 52-54 left out: the error of time.Parse is not returned.
UnmarshalISO8601ErrorDropped(text, old) ==
    IF text.kind = "time"
    THEN [err |-> FALSE, ts |-> ParseUnix(text)]
    ELSE [err |-> FALSE, ts |-> old]

\* ISO8601.UnmarshalJSON: err is TRUE when the text does not match the
\* layout, and then *ts is left as it was (`old`).
UnmarshalISO8601(text, old) ==
    IF text.kind = "time"
    THEN [err |-> FALSE, ts |-> ParseUnix(text)]
    ELSE [err |-> TRUE, ts |-> old]

\* The "source" records the upstream sends.  stream_start is a timestamp
\* text or Malformed.
SourceA5 == [listeners |-> 5, listenurl |-> "/a", server_type |-> "audio/mpeg",
             stream_start |-> TimeText(403225, 0)]
SourceA7 == [listeners |-> 7, listenurl |-> "/a", server_type |-> "audio/mpeg",
             stream_start |-> TimeText(403225, 1)]
SourceB0 == [listeners |-> 0, listenurl |-> "/b", server_type |-> "application/ogg",
             stream_start |-> TimeText(403224, 0)]
SourceBad == [listeners |-> 3, listenurl |-> "/b", server_type |-> "audio/mpeg",
              stream_start |-> Malformed]

WellFormedSources == {SourceA5, SourceA7, SourceB0}

\* The mounts in the order the upstream lists them.  SourceA5 and SourceA7
\* carry the same (listenurl, server_type) pair with different values.
Feed == <<SourceA5, SourceA7, SourceB0>>

\* The "source" arrays the upstream sends: every run of at most MaxSources
\* consecutive mounts of the feed (the empty run included).
FeedRuns ==
    {SubSeq(Feed, i, j) : i \in 1..Len(Feed), j \in 0..Len(Feed)} \cap
    UNION {[1..k -> WellFormedSources] : k \in 0..MaxSources}

JArray(items) == [kind |-> "array", items |-> items]
JObject(item) == [kind |-> "object", item |-> item]
JString == [kind |-> "string"]
JAbsent == [kind |-> "absent"]

ServerStartT1 == TimeText(403224, 0)
ServerStartT2 == TimeText(403224, 1)

\* A response body: text that is no JSON value at all, or the JSON object
\* {"icestats": {"server_start_iso8601": ..., "source": ...}} with either
\* member possibly absent.  source is an array, an object, or a value of
\* another JSON type (a string).
Doc(start, source) == [valid |-> TRUE, server_start |-> start, source |-> source]
NotJSON == [valid |-> FALSE]

\* {"icestats": {}}
EmptyIcestats == Doc(Absent, JAbsent)

WellFormedDocs ==
    {Doc(ServerStartT1, JArray(q)) : q \in FeedRuns}
    \cup {Doc(t, JObject(r)) : t \in {ServerStartT1, ServerStartT2}, r \in WellFormedSources}
    \cup {Doc(ServerStartT1, JAbsent)}

MalformedDocs ==
    {NotJSON, EmptyIcestats,
     Doc(ServerStartT1, JString),
     Doc(ServerStartT1, JArray(<<SourceA5, SourceBad>>)),
     Doc(ServerStartT1, JObject(SourceBad)),
     Doc(Malformed, JArray(<<SourceA5>>)),
     Doc(Malformed, JObject(SourceA5))}

Bodies == WellFormedDocs \cup MalformedDocs

StatusCodes == {200, 503}

\* ------------------------------------------------------ JSON decoding
\* encoding/json as the code uses it: a member the document lacks leaves the
\* Go field at its zero value and is no error; a JSON value of the wrong
\* type for its field is skipped, the field keeps its value, and Decode
\* reports the error at the end; an error returned by an UnmarshalJSON
\* method stops the decode at once.  Text that is no JSON value is rejected
\* before anything is stored.  Members are decoded in document order:
\* server_start_iso8601 before source, and inside a source record listeners,
\* listenurl, server_type, stream_start_iso8601.

\* IcecastStatusSource{}
ZeroSource == [Listeners |-> 0, Listenurl |-> "", ServerType |-> "",
               StreamStart |-> ZeroTimeUnix]

\* Decoding one JSON object into an IcecastStatusSource.
DecodeSource(item) ==
    LET t == UnmarshalISO8601(item.stream_start, ZeroTimeUnix)
    IN [err |-> t.err,
        v |-> [Listeners |-> item.listeners, Listenurl |-> item.listenurl,
               ServerType |-> item.server_type, StreamStart |-> t.ts]]

\* Decoding a JSON array into []IcecastStatusSource: element by element,
\* stopping at the first element whose timestamp is rejected.
RECURSIVE DecodeSourceArray(_)
DecodeSourceArray(items) ==
    IF items = <<>> THEN [err |-> FALSE, v |-> <<>>]
    ELSE LET hd == DecodeSource(Head(items))
         IN IF hd.err THEN [err |-> TRUE, v |-> <<hd.v>>]
            ELSE LET tl == DecodeSourceArray(Tail(items))
                 IN [err |-> tl.err, v |-> <<hd.v>> \o tl.v]

\* var s IcecastStatus
ZeroStatus == [ServerStart |-> ZeroTimeUnix, Source |-> <<>>]

\* A decode that rejects a document lacking server_start_iso8601 or source
\* (required members), which encoding/json does not do.
DecodeMultiRequired(doc) ==
    IF ~doc.valid \/ doc.server_start.kind = "absent" \/ doc.source.kind = "absent"
    THEN [err |-> TRUE, s |-> ZeroStatus]
    ELSE
      LET st == UnmarshalISO8601(doc.server_start, ZeroTimeUnix)
      IN IF st.err THEN [err |-> TRUE, s |-> ZeroStatus]
         ELSE IF doc.source.kind = "array"
              THEN LET a == DecodeSourceArray(doc.source.items)
                   IN [err |-> a.err, s |-> [ServerStart |-> st.ts, Source |-> a.v]]
              ELSE [err |-> TRUE, s |-> [ServerStart |-> st.ts, Source |-> <<>>]]

\* json.NewDecoder(buf).Decode(&s) with s an IcecastStatus (source as a
\* sequence).  s is what the decode left in the variable, also on error.
DecodeMulti(doc) ==
    IF ~doc.valid THEN [err |-> TRUE, s |-> ZeroStatus]
    ELSE
      LET st == IF doc.server_start.kind = "absent"
                THEN [err |-> FALSE, ts |-> ZeroTimeUnix]
                ELSE UnmarshalISO8601(doc.server_start, ZeroTimeUnix)
      IN IF st.err THEN [err |-> TRUE, s |-> ZeroStatus]
         ELSE CASE doc.source.kind = "absent" ->
                     [err |-> FALSE, s |-> [ServerStart |-> st.ts, Source |-> <<>>]]
                [] doc.source.kind = "array" ->
                     LET a == DecodeSourceArray(doc.source.items)
                     IN [err |-> a.err, s |-> [ServerStart |-> st.ts, Source |-> a.v]]
                [] OTHER ->
                     \* an object or a string where a sequence is expected
                     [err |-> TRUE, s |-> [ServerStart |-> st.ts, Source |-> <<>>]]

\* var s2 IcecastStatusSingle
ZeroStatusSingle == [ServerStart |-> ZeroTimeUnix, Source |-> ZeroSource]

\* json.NewDecoder(buf).Decode(&s2) with s2 an IcecastStatusSingle (source
\* as one object).
DecodeSingle(doc) ==
    IF ~doc.valid THEN [err |-> TRUE, s |-> ZeroStatusSingle]
    ELSE
      LET st == IF doc.server_start.kind = "absent"
                THEN [err |-> FALSE, ts |-> ZeroTimeUnix]
                ELSE UnmarshalISO8601(doc.server_start, ZeroTimeUnix)
      IN IF st.err THEN [err |-> TRUE, s |-> ZeroStatusSingle]
         ELSE CASE doc.source.kind = "absent" ->
                     [err |-> FALSE, s |-> [ServerStart |-> st.ts, Source |-> ZeroSource]]
                [] doc.source.kind = "object" ->
                     LET o == DecodeSource(doc.source.item)
                     IN [err |-> o.err, s |-> [ServerStart |-> st.ts, Source |-> o.v]]
                [] OTHER ->
                     \* an array or a string where an object is expected
                     [err |-> TRUE, s |-> [ServerStart |-> st.ts, Source |-> ZeroSource]]

\* Line 227 left out: the server start is copied, the source is not.
CopyOverStartOnly(s, s2) ==
    [s EXCEPT !.ServerStart = s2.ServerStart]

\* Lines 226-227: copy the single-shape result over to the status object.
CopyOver(s, s2) ==
    [s EXCEPT !.ServerStart = s2.ServerStart, !.Source = <<s2.Source>>]

\* Lines 209-228 of scrape: the sequence shape first, the single-object
\* shape when that fails.  err is TRUE when both fail.
Decode(bodyDoc) ==
    LET m == DecodeMulti(bodyDoc)
    IN IF ~m.err THEN [err |-> FALSE, s |-> m.s]
       ELSE LET o == DecodeSingle(bodyDoc)
            IN IF o.err THEN [err |-> TRUE, s |-> m.s]
               ELSE [err |-> FALSE, s |-> CopyOver(m.s, o.s)]

\* ------------------------------------------------------------- state
VARIABLES
    up,                 \* e.up, a Gauge
    totalScrapes,       \* e.totalScrapes, a Counter
    jsonParseFailures,  \* e.jsonParseFailures, a Counter
    serverStart,        \* e.serverStart, a Gauge
    listeners,          \* e.listeners, a GaugeVec: label pair -> value
    streamStart,        \* e.streamStart, a GaugeVec: label pair -> value
    mutex,              \* e.mutex: 0 when free, else the caller holding it
    pc,                 \* where each Collect call stands
    spc,                \* where each call's scrape goroutine stands
    resp,               \* scrape's resp while its body is still to be read: the
                        \* response's status code; 0 before and after
    bodyBytes,          \* scrape's bodyBytes
    failed,             \* the return of scrape that was taken: "", "get", "read", "json"
    s,                  \* scrape's s, the status it sends on the channel
    got,                \* Collect's s, what it received from the channel
    out,                \* what Collect sent on ch (lines 178-183)
    entry,              \* the two counters as they stood when the running call was
                        \* made; kept only where calls do not overlap (SpecSeq)
    prev,               \* the call that returned last: the body it read, the
                        \* return its scrape took and what it sent on ch; kept
                        \* only where calls do not overlap (SpecSeq)
    fetches,            \* e.client.Get calls made so far
    calls               \* Collect calls made so far

vars == <<up, totalScrapes, jsonParseFailures, serverStart, listeners, streamStart,
          mutex, pc, spc, resp, bodyBytes, failed, s, got, out, entry, prev,
          fetches, calls>>

exposed == <<up, totalScrapes, jsonParseFailures, serverStart, listeners, streamStart>>
locals == <<resp, bodyBytes, failed, s, got, out>>

\* a nil *IcecastStatus, a status, and the locals before they are assigned
Nil == [nil |-> TRUE]
Status(v) == [nil |-> FALSE, Icestats |-> v]
NoBody == [valid |-> FALSE, none |-> TRUE]
NoOut == [none |-> TRUE]
NoPrev == [set |-> FALSE]

\* A GaugeVec with no children (after NewGaugeVec, after Reset).
EmptyVec == [x \in {} |-> 0]

\* Add in place of Set: a value accumulates on a child that exists.
WithLabelValuesAdd(vec, url, type, v) ==
    [x \in DOMAIN vec \cup {<<url, type>>} |->
        IF x = <<url, type>>
        THEN (IF x \in DOMAIN vec THEN vec[x] + v ELSE v)
        ELSE vec[x]]

\* vec.WithLabelValues(url, type).Set(v)
WithLabelValuesSet(vec, url, type, v) ==
    [x \in DOMAIN vec \cup {<<url, type>>} |->
        IF x = <<url, type>> THEN v ELSE vec[x]]

\* Lines 172-175 with the loop run from the last source to the first.
RECURSIVE SetAllLastToFirst(_, _, _)
SetAllLastToFirst(vec, sources, field) ==
    IF sources = <<>> THEN vec
    ELSE WithLabelValuesSet(SetAllLastToFirst(vec, Tail(sources), field),
                            Head(sources).Listenurl, Head(sources).ServerType,
                            Head(sources)[field])

\* Lines 172-175 for one of the two vectors: the loop over the sources in
\* order; field is "Listeners" or "StreamStart".
RECURSIVE SetAll(_, _, _)
SetAll(vec, sources, field) ==
    IF sources = <<>> THEN vec
    ELSE SetAll(WithLabelValuesSet(vec, Head(sources).Listenurl,
                                   Head(sources).ServerType, Head(sources)[field]),
                Tail(sources), field)

\* NewExporter: gauges and counters at 0, vectors without children, mutex
\* free, no Collect call running.
Init ==
    /\ up = 0
    /\ totalScrapes = 0
    /\ jsonParseFailures = 0
    /\ serverStart = 0
    /\ listeners = EmptyVec
    /\ streamStart = EmptyVec
    /\ mutex = 0
    /\ pc = [p \in Procs |-> "idle"]
    /\ spc = [p \in Procs |-> "none"]
    /\ resp = [p \in Procs |-> 0]
    /\ bodyBytes = [p \in Procs |-> NoBody]
    /\ failed = [p \in Procs |-> ""]
    /\ s = [p \in Procs |-> Nil]
    /\ got = [p \in Procs |-> Nil]
    /\ out = [p \in Procs |-> NoOut]
    /\ entry = [totalScrapes |-> 0, jsonParseFailures |-> 0]
    /\ prev = NoPrev
    /\ fetches = 0
    /\ calls = 0

\* ----------------------------------------------------------- Collect
\* Lines 160-162: make the channel and start the scrape goroutine.
CollectCall(p) ==
    /\ pc[p] = "idle"
    /\ calls < MaxCalls
    /\ pc' = [pc EXCEPT ![p] = "lock"]
    /\ spc' = [spc EXCEPT ![p] = "inc"]
    /\ calls' = calls + 1
    /\ UNCHANGED <<exposed, mutex, resp, bodyBytes, failed, s, got, out, prev,
                   fetches>>

\* A call made while other calls may be running.
CollectStart(p) ==
    /\ CollectCall(p)
    /\ UNCHANGED entry

NoCallRunning == \A q \in Procs : pc[q] = "idle"

CountersNow == [totalScrapes |-> totalScrapes, jsonParseFailures |-> jsonParseFailures]

\* A call made when no other call is running; the counters are noted.
CollectStartAlone(p) ==
    /\ NoCallRunning
    /\ CollectCall(p)
    /\ entry' = CountersNow

\* Line 164: e.mutex.Lock()
CollectLock(p) ==
    /\ pc[p] = "lock"
    /\ mutex = 0
    /\ mutex' = p
    /\ pc' = [pc EXCEPT ![p] = "reset"]
    /\ UNCHANGED <<exposed, spc, locals, entry, prev,
                   fetches, calls>>

\* Line 168 left out: only e.listeners is reset.
CollectResetListenersOnly(p) ==
    /\ pc[p] = "reset"
    /\ listeners' = EmptyVec
    /\ pc' = [pc EXCEPT ![p] = "recv"]
    /\ UNCHANGED <<up, totalScrapes, jsonParseFailures, serverStart, streamStart,
                   mutex, spc, locals, entry, prev,
                   fetches, calls>>

\* Lines 167-168: e.listeners.Reset(); e.streamStart.Reset()
CollectReset(p) ==
    /\ pc[p] = "reset"
    /\ listeners' = EmptyVec
    /\ streamStart' = EmptyVec
    /\ pc' = [pc EXCEPT ![p] = "recv"]
    /\ UNCHANGED <<up, totalScrapes, jsonParseFailures, serverStart, mutex, spc,
                   locals, entry, prev,
                   fetches, calls>>

\* Line 161 left out, with one status channel shared by all calls: the
\* receive at line 170 takes what any scrape sends.
CollectReceiveStatusOfAny(p) ==
    /\ pc[p] = "recv"
    /\ \E q \in Procs :
         /\ spc[q] = "send"
         /\ got' = [got EXCEPT ![p] = s[q]]
         /\ serverStart' = s[q].Icestats.ServerStart
         /\ listeners' = SetAll(listeners, s[q].Icestats.Source, "Listeners")
         /\ streamStart' = SetAll(streamStart, s[q].Icestats.Source, "StreamStart")
         /\ spc' = [spc EXCEPT ![q] = "done"]
    /\ pc' = [pc EXCEPT ![p] = "emit"]
    /\ UNCHANGED <<up, totalScrapes, jsonParseFailures, mutex, resp, bodyBytes,
                   failed, s, out, entry, prev, fetches, calls>>

\* Line 171 with Add in place of Set: the server start piles up.
CollectReceiveStatusAddsStart(p) ==
    /\ pc[p] = "recv"
    /\ spc[p] = "send"
    /\ got' = [got EXCEPT ![p] = s[p]]
    /\ serverStart' = serverStart + s[p].Icestats.ServerStart
    /\ listeners' = SetAll(listeners, s[p].Icestats.Source, "Listeners")
    /\ streamStart' = SetAll(streamStart, s[p].Icestats.Source, "StreamStart")
    /\ spc' = [spc EXCEPT ![p] = "done"]
    /\ pc' = [pc EXCEPT ![p] = "emit"]
    /\ UNCHANGED <<up, totalScrapes, jsonParseFailures, mutex, resp, bodyBytes,
                   failed, s, out, entry, prev, fetches, calls>>

\* Lines 170-176 when scrape is at its send (line 230): receive the status
\* and publish it; the scrape goroutine then returns.
CollectReceiveStatus(p) ==
    /\ pc[p] = "recv"
    /\ spc[p] = "send"
    /\ got' = [got EXCEPT ![p] = s[p]]
    /\ serverStart' = s[p].Icestats.ServerStart
    /\ listeners' = SetAll(listeners, s[p].Icestats.Source, "Listeners")
    /\ streamStart' = SetAll(streamStart, s[p].Icestats.Source, "StreamStart")
    /\ spc' = [spc EXCEPT ![p] = "done"]
    /\ pc' = [pc EXCEPT ![p] = "emit"]
    /\ UNCHANGED <<up, totalScrapes, jsonParseFailures, mutex, resp, bodyBytes,
                   failed, s, out, entry, prev,
                   fetches, calls>>

\* Line 170 with an else branch that sets the server start to 0 for a nil s.
CollectReceiveNilZeroesStart(p) ==
    /\ pc[p] = "recv"
    /\ spc[p] = "closed"
    /\ got' = [got EXCEPT ![p] = Nil]
    /\ serverStart' = 0
    /\ pc' = [pc EXCEPT ![p] = "emit"]
    /\ UNCHANGED <<up, totalScrapes, jsonParseFailures, listeners, streamStart,
                   mutex, spc, resp, bodyBytes, failed, s, out, entry, prev,
                   fetches, calls>>

\* Line 170 when scrape has closed the channel without sending: s is nil.
CollectReceiveNil(p) ==
    /\ pc[p] = "recv"
    /\ spc[p] = "closed"
    /\ got' = [got EXCEPT ![p] = Nil]
    /\ pc' = [pc EXCEPT ![p] = "emit"]
    /\ UNCHANGED <<exposed, mutex, spc, resp, bodyBytes, failed, s, out, entry, prev,
                   fetches, calls>>

\* Lines 178-183: send the metrics on ch.  The two vectors are written only
\* by the holder of the mutex, so reading them in the same step as the four
\* scalars loses no interleaving.
CollectEmit(p) ==
    /\ pc[p] = "emit"
    /\ out' = [out EXCEPT ![p] =
                 [none |-> FALSE, up |-> up, totalScrapes |-> totalScrapes,
                  jsonParseFailures |-> jsonParseFailures, serverStart |-> serverStart,
                  listeners |-> listeners, streamStart |-> streamStart]]
    /\ pc' = [pc EXCEPT ![p] = "unlock"]
    /\ UNCHANGED <<exposed, mutex, spc, resp, bodyBytes, failed, s, got, entry, prev,
                   fetches, calls>>

\* Line 165, run on return: e.mutex.Unlock().  The call's locals are gone.
CollectUnlock(p) ==
    /\ pc[p] = "unlock"
    /\ mutex' = 0
    /\ pc' = [pc EXCEPT ![p] = "idle"]
    /\ spc' = [spc EXCEPT ![p] = "none"]
    /\ bodyBytes' = [bodyBytes EXCEPT ![p] = NoBody]
    /\ failed' = [failed EXCEPT ![p] = ""]
    /\ s' = [s EXCEPT ![p] = Nil]
    /\ got' = [got EXCEPT ![p] = Nil]
    /\ out' = [out EXCEPT ![p] = NoOut]
    /\ UNCHANGED <<exposed, resp, entry, fetches, calls>>

\* A call returns while other calls may be running.
CollectReturn(p) ==
    /\ CollectUnlock(p)
    /\ UNCHANGED prev

\* A call returns where calls do not overlap; what it did is noted.
CollectReturnAlone(p) ==
    /\ CollectUnlock(p)
    /\ prev' = [set |-> TRUE, body |-> bodyBytes[p], failed |-> failed[p],
                out |-> out[p]]

\* Line 189 run twice: the scrape is counted two times.
ScrapeIncTwice(p) ==
    /\ spc[p] = "inc"
    /\ totalScrapes' = totalScrapes + 2
    /\ spc' = [spc EXCEPT ![p] = "get"]
    /\ UNCHANGED <<up, jsonParseFailures, serverStart, listeners, streamStart,
                   mutex, pc, locals, entry, prev, fetches, calls>>

\* Line 189 left out: the scrape is not counted.
ScrapeIncSkipped(p) ==
    /\ spc[p] = "inc"
    /\ spc' = [spc EXCEPT ![p] = "get"]
    /\ UNCHANGED <<exposed, mutex, pc, locals, entry, prev,
                   fetches, calls>>

\* ------------------------------------------------------------ scrape
\* Line 189: e.totalScrapes.Inc()
ScrapeInc(p) ==
    /\ spc[p] = "inc"
    /\ totalScrapes' = totalScrapes + 1
    /\ spc' = [spc EXCEPT ![p] = "get"]
    /\ UNCHANGED <<up, jsonParseFailures, serverStart, listeners, streamStart,
                   mutex, pc, locals, entry, prev,
                   fetches, calls>>

\* Lines 191-196 with the Get tried a second time after its error.
ScrapeGetErrorRetried(p) ==
    /\ spc[p] = "get"
    /\ up' = 0
    /\ failed' = [failed EXCEPT ![p] = "get"]
    /\ spc' = [spc EXCEPT ![p] = "closed"]
    /\ fetches' = fetches + 2
    /\ UNCHANGED <<totalScrapes, jsonParseFailures, serverStart, listeners,
                   streamStart, mutex, pc, resp, bodyBytes, s, got, out, entry, prev,
                   calls>>

\* Lines 191-196: e.client.Get fails (no connection, timeout, bad URL):
\* up is set to 0 and the channel is closed on return.
ScrapeGetError(p) ==
    /\ spc[p] = "get"
    /\ up' = 0
    /\ failed' = [failed EXCEPT ![p] = "get"]
    /\ spc' = [spc EXCEPT ![p] = "closed"]
    /\ fetches' = fetches + 1
    /\ UNCHANGED <<totalScrapes, jsonParseFailures, serverStart, listeners,
                   streamStart, mutex, pc, resp, bodyBytes, s, got, out, entry, prev,
                   calls>>

\* Lines 191-198: e.client.Get returns a response; http.Client.Get reports
\* no error for a status code outside 2xx.  up is set to 1.
ScrapeGetResponse(p, code) ==
    /\ spc[p] = "get"
    /\ resp' = [resp EXCEPT ![p] = code]
    /\ up' = 1
    /\ spc' = [spc EXCEPT ![p] = "read"]
    /\ fetches' = fetches + 1
    /\ UNCHANGED <<totalScrapes, jsonParseFailures, serverStart, listeners,
                   streamStart, mutex, pc, bodyBytes, failed, s, got, out, entry, prev,
                   calls>>

\* Line 204 left out: up keeps the 1 of line 198.
ScrapeReadErrorUpLeft(p) ==
    /\ spc[p] = "read"
    /\ resp' = [resp EXCEPT ![p] = 0]
    /\ failed' = [failed EXCEPT ![p] = "read"]
    /\ spc' = [spc EXCEPT ![p] = "closed"]
    /\ UNCHANGED <<exposed, mutex, pc, bodyBytes, s, got, out, entry, prev,
                   fetches, calls>>

\* Lines 202-207: ioutil.ReadAll fails: up is set to 0.
ScrapeReadError(p) ==
    /\ spc[p] = "read"
    /\ resp' = [resp EXCEPT ![p] = 0]
    /\ up' = 0
    /\ failed' = [failed EXCEPT ![p] = "read"]
    /\ spc' = [spc EXCEPT ![p] = "closed"]
    /\ UNCHANGED <<totalScrapes, jsonParseFailures, serverStart, listeners,
                   streamStart, mutex, pc, bodyBytes, s, got, out, entry, prev,
                   fetches, calls>>

\* Lines 202-223: the body is read and neither decode accepts it:
\* e.jsonParseFailures.Inc() and return.
ScrapeDecodeError(p, b) ==
    /\ spc[p] = "read"
    /\ Decode(b).err
    /\ resp' = [resp EXCEPT ![p] = 0]
    /\ bodyBytes' = [bodyBytes EXCEPT ![p] = b]
    /\ jsonParseFailures' = jsonParseFailures + 1
    /\ failed' = [failed EXCEPT ![p] = "json"]
    /\ spc' = [spc EXCEPT ![p] = "closed"]
    /\ UNCHANGED <<up, totalScrapes, serverStart, listeners, streamStart, mutex, pc,
                   s, got, out, entry, prev,
                   fetches, calls>>

\* Lines 202-230: the body is read and decoded; scrape stands at the send
\* `status <- &s`, which waits for Collect's receive.
ScrapeDecoded(p, b) ==
    /\ spc[p] = "read"
    /\ ~Decode(b).err
    /\ resp' = [resp EXCEPT ![p] = 0]
    /\ bodyBytes' = [bodyBytes EXCEPT ![p] = b]
    /\ s' = [s EXCEPT ![p] = Status(Decode(b).s)]
    /\ spc' = [spc EXCEPT ![p] = "send"]
    /\ UNCHANGED <<exposed, mutex, pc, failed, got, out, entry, prev,
                   fetches, calls>>

\* ------------------------------------------------------ specification
\* Collect called by any number of callers at once.
Next ==
    \/ \E p \in Procs : CollectStart(p)
    \/ \E p \in Procs : CollectLock(p)
    \/ \E p \in Procs : CollectReset(p)
    \/ \E p \in Procs : CollectReceiveStatus(p)
    \/ \E p \in Procs : CollectReceiveNil(p)
    \/ \E p \in Procs : CollectEmit(p)
    \/ \E p \in Procs : CollectReturn(p)
    \/ \E p \in Procs : ScrapeInc(p)
    \/ \E p \in Procs : ScrapeGetError(p)
    \/ \E p \in Procs, code \in StatusCodes : ScrapeGetResponse(p, code)
    \/ \E p \in Procs : ScrapeReadError(p)
    \/ \E p \in Procs, b \in Bodies : ScrapeDecodeError(p, b)
    \/ \E p \in Procs, b \in Bodies : ScrapeDecoded(p, b)

Spec == Init /\ [][Next]_vars

\* Collect called again only after the previous call has returned.
NextSeq ==
    \/ \E p \in Procs : CollectStartAlone(p)
    \/ \E p \in Procs : CollectLock(p)
    \/ \E p \in Procs : CollectReset(p)
    \/ \E p \in Procs : CollectReceiveStatus(p)
    \/ \E p \in Procs : CollectReceiveNil(p)
    \/ \E p \in Procs : CollectEmit(p)
    \/ \E p \in Procs : CollectReturnAlone(p)
    \/ \E p \in Procs : ScrapeInc(p)
    \/ \E p \in Procs : ScrapeGetError(p)
    \/ \E p \in Procs, code \in StatusCodes : ScrapeGetResponse(p, code)
    \/ \E p \in Procs : ScrapeReadError(p)
    \/ \E p \in Procs, b \in Bodies : ScrapeDecodeError(p, b)
    \/ \E p \in Procs, b \in Bodies : ScrapeDecoded(p, b)

SpecSeq == Init /\ [][NextSeq]_vars

\* What a running call does on its own once it has the mutex (lines 167-184).
CollectStep(p) ==
    \/ CollectReset(p)
    \/ CollectReceiveStatus(p)
    \/ CollectReceiveNil(p)
    \/ CollectEmit(p)
    \/ CollectReturn(p)

\* What a scrape goroutine does (lines 186-231).  The deadline set at line
\* 137 ends a Get or a ReadAll that the upstream leaves unanswered.
ScrapeStep(p) ==
    \/ ScrapeInc(p)
    \/ ScrapeGetError(p)
    \/ \E code \in StatusCodes : ScrapeGetResponse(p, code)
    \/ ScrapeReadError(p)
    \/ \E b \in Bodies : ScrapeDecodeError(p, b)
    \/ \E b \in Bodies : ScrapeDecoded(p, b)

\* Goroutines that can run do run; a caller waiting in Lock gets the mutex
\* when it is released often enough (sync.RWMutex queues its writers).
Fairness ==
    \A p \in Procs :
        /\ WF_vars(CollectStep(p))
        /\ WF_vars(ScrapeStep(p))
        /\ SF_vars(CollectLock(p))

SpecLive == Init /\ [][Next]_vars /\ Fairness

\* ------------------------------------------------------------ claims
\* The call has sent its metrics and has not yet returned.
Emitted(p) == pc[p] = "unlock"

Is2xx(code) == code >= 200 /\ code < 300

NoSeries(o) == DOMAIN o.listeners = {} /\ DOMAIN o.streamStart = {}

\* What a document says, read off the document itself.
DocSources(doc) ==
    CASE doc.source.kind = "array" -> doc.source.items
      [] doc.source.kind = "object" -> <<doc.source.item>>
      [] OTHER -> <<>>

DocPair(src) == <<src.listenurl, src.server_type>>

\* The (listenurl, server_type) pairs of a decoded status; none for nil.
StatusPairs(st) ==
    IF st.nil THEN {}
    ELSE {<<st.Icestats.Source[i].Listenurl, st.Icestats.Source[i].ServerType>> :
            i \in 1..Len(st.Icestats.Source)}

\* C1: a collect whose body was read and failed both decodes renders up=0,
\* with exporter_json_parse_failures and exporter_total_scrapes each exactly
\* 1 higher than before the call.
C1_ParseFailureRendersUpZero ==
    \A p \in Procs :
        (Emitted(p) /\ failed[p] = "json") =>
            /\ out[p].up = 0
            /\ out[p].jsonParseFailures = entry.jsonParseFailures + 1
            /\ out[p].totalScrapes = entry.totalScrapes + 1

\* The steps that write up, server_start, listeners or stream_start for the
\* cycle of caller p.
WritesExposed(p) ==
    \/ ScrapeGetError(p)
    \/ \E code \in StatusCodes : ScrapeGetResponse(p, code)
    \/ ScrapeReadError(p)
    \/ CollectReset(p)
    \/ CollectReceiveStatus(p)

\* C2: every write to up, server_start, listeners and stream_start made for
\* a scrape cycle happens while that cycle's collect holds the mutex.
C2_WritesUnderMutex ==
    [][\A p \in Procs : WritesExposed(p) => mutex = p]_vars

\* C3: an emitted snapshot with up=0 holds no listeners or stream_start
\* series, under any interleaving of collects.
C3_SnapshotConsistent ==
    \A p \in Procs : (Emitted(p) /\ out[p].up = 0) => NoSeries(out[p])

\* C4: exporter_total_scrapes counts every collect call once: it equals the
\* number of calls whose scrape has passed its increment, so when all n
\* calls made have returned it equals n.
C4_TotalScrapesCountsCalls ==
    /\ totalScrapes = calls - Cardinality({p \in Procs : spc[p] = "inc"})
    /\ NoCallRunning => totalScrapes = calls

C4_Witness ==
    /\ NoCallRunning
    /\ calls = 2
    /\ totalScrapes = 2
    /\ jsonParseFailures = 1
    /\ up = 0

\* C5: the label pairs a collect emits for listeners and for stream_start
\* are exactly the pairs of the status its own scrape produced, and none
\* when that scrape failed, under any interleaving of collects.
C5_LabelsOfOwnScrape ==
    \A p \in Procs :
        Emitted(p) =>
            LET own == IF failed[p] = "" THEN s[p] ELSE Nil
            IN /\ got[p] = own
               /\ DOMAIN out[p].listeners = StatusPairs(own)
               /\ DOMAIN out[p].streamStart = StatusPairs(own)

\* The second call has emitted one pair while the other caller's scrape
\* stands at its send with a status that carries another pair.
C5_Witness ==
    \E p, q \in Procs :
        /\ Emitted(p)
        /\ calls = 2
        /\ DOMAIN out[p].listeners = {<<"/b", "application/ogg">>}
        /\ spc[q] = "send"
        /\ <<"/a", "audio/mpeg">> \in StatusPairs(s[q])

\* C6: a collect whose fetch failed (Get error or body-read error) renders
\* up=0 and no series, leaves exporter_json_parse_failures as it was before
\* the call and exporter_total_scrapes 1 higher; the parse-failure counter
\* moves only in a cycle whose body was read and failed to decode.
C6_FetchFailure ==
    \A p \in Procs :
        Emitted(p) =>
            /\ failed[p] \in {"get", "read"} =>
                 /\ out[p].up = 0
                 /\ NoSeries(out[p])
                 /\ out[p].jsonParseFailures = entry.jsonParseFailures
                 /\ out[p].totalScrapes = entry.totalScrapes + 1
            /\ out[p].jsonParseFailures # entry.jsonParseFailures =>
                 /\ failed[p] = "json"
                 /\ bodyBytes[p] \in Bodies
                 /\ DecodeMulti(bodyBytes[p]).err
                 /\ DecodeSingle(bodyBytes[p]).err

\* A body-read error right after a cycle that succeeded and one that failed
\* to parse.
C6_Witness ==
    \E p \in Procs :
        /\ Emitted(p)
        /\ failed[p] = "read"
        /\ entry.totalScrapes = 1
        /\ entry.jsonParseFailures = 1
        /\ out[p].up = 0

\* C7: a response with a status code outside 2xx is a fetch failure: the
\* step scrape takes on it is the failure return, which sets up to 0 and
\* closes the channel, and the body is not handed to the decoder.
C7_Non2xxIsFetchFailure ==
    [][\A p \in Procs :
         (/\ spc[p] = "read"
          /\ ~Is2xx(resp[p])
          /\ spc'[p] # "read") =>
            /\ spc'[p] = "closed"
            /\ failed'[p] = "read"
            /\ bodyBytes'[p] = NoBody
            /\ up' = 0]_vars

\* C8 as stated: a collect whose cycle succeeded renders up=1, server_start
\* equal to the document's server start, and for every source of the
\* document a listeners value equal to its listener count and a
\* stream_start value equal to its stream start, under the source's pair.
C8_EverySourceRendered ==
    \A p \in Procs :
        (Emitted(p) /\ failed[p] = "") =>
            LET doc == bodyBytes[p]
                srcs == DocSources(doc)
            IN /\ out[p].up = 1
               /\ doc.server_start.kind = "time" =>
                    out[p].serverStart = doc.server_start.wall - doc.server_start.zone
               /\ \A i \in 1..Len(srcs) :
                    /\ DocPair(srcs[i]) \in DOMAIN out[p].listeners
                    /\ out[p].listeners[DocPair(srcs[i])] = srcs[i].listeners
                    /\ DocPair(srcs[i]) \in DOMAIN out[p].streamStart
                    /\ out[p].streamStart[DocPair(srcs[i])] =
                         srcs[i].stream_start.wall - srcs[i].stream_start.zone

\* C8 as amended: the same, with the values under a pair being those of the
\* last source of the document that carries the pair, and one series per
\* distinct pair.
C8_LastSourceOfPairRendered ==
    \A p \in Procs :
        (Emitted(p) /\ failed[p] = "") =>
            LET doc == bodyBytes[p]
                srcs == DocSources(doc)
                IsLast(i) == \A j \in (i + 1)..Len(srcs) : DocPair(srcs[j]) # DocPair(srcs[i])
            IN /\ out[p].up = 1
               /\ doc.server_start.kind = "time" =>
                    out[p].serverStart = doc.server_start.wall - doc.server_start.zone
               /\ DOMAIN out[p].listeners = {DocPair(srcs[i]) : i \in 1..Len(srcs)}
               /\ DOMAIN out[p].streamStart = {DocPair(srcs[i]) : i \in 1..Len(srcs)}
               /\ \A i \in 1..Len(srcs) :
                    IsLast(i) =>
                      /\ out[p].listeners[DocPair(srcs[i])] = srcs[i].listeners
                      /\ out[p].streamStart[DocPair(srcs[i])] =
                           srcs[i].stream_start.wall - srcs[i].stream_start.zone

\* A cycle that succeeds right after a cycle that failed to parse, on a
\* document whose two sources share one pair.
C8_Witness ==
    \E p \in Procs :
        /\ Emitted(p)
        /\ failed[p] = ""
        /\ entry.jsonParseFailures = 1
        /\ bodyBytes[p] = Doc(ServerStartT1, JArray(<<SourceA5, SourceA7>>))
        /\ out[p].listeners[<<"/a", "audio/mpeg">>] = 7

\* C9 as stated: the document {"icestats": {}} is a parse failure.
C9_EmptyIcestatsIsParseFailure ==
    \A p \in Procs : bodyBytes[p] = EmptyIcestats => failed[p] = "json"

\* C9 as amended: the document {"icestats": {}} decodes in the sequence
\* shape to a status with zero sources and the zero server start; the cycle
\* is no parse failure: the counter stays and the collect renders up=1 with
\* no series.
C9_EmptyIcestatsIsZeroSources ==
    \A p \in Procs :
        bodyBytes[p] = EmptyIcestats =>
            /\ failed[p] = ""
            /\ s[p] = Status([ServerStart |-> ZeroTimeUnix, Source |-> <<>>])
            /\ jsonParseFailures = entry.jsonParseFailures
            /\ Emitted(p) =>
                 /\ out[p].up = 1
                 /\ out[p].serverStart = ZeroTimeUnix
                 /\ NoSeries(out[p])
                 /\ out[p].jsonParseFailures = entry.jsonParseFailures

C9_Witness ==
    \E p \in Procs :
        /\ Emitted(p)
        /\ bodyBytes[p] = EmptyIcestats
        /\ entry.totalScrapes = 1

\* C10: a well-formed document with "source" as one object decodes to the
\* status that the same document with the record wrapped in a one-element
\* array decodes to: the same server start and exactly one source with the
\* record's four fields.
C10_ShapeInvariance ==
    \A p \in Procs :
        (/\ spc[p] \in {"send", "done"}
         /\ bodyBytes[p].valid
         /\ bodyBytes[p].source.kind = "object") =>
            LET item == bodyBytes[p].source.item
                wrapped == DecodeMulti(Doc(bodyBytes[p].server_start, JArray(<<item>>)))
                src == s[p].Icestats.Source
            IN /\ ~wrapped.err
               /\ s[p] = Status(wrapped.s)
               /\ Len(src) = 1
               /\ src[1].Listeners = item.listeners
               /\ src[1].Listenurl = item.listenurl
               /\ src[1].ServerType = item.server_type
               /\ src[1].StreamStart = item.stream_start.wall - item.stream_start.zone

C10_Witness ==
    \E p \in Procs :
        /\ spc[p] = "send"
        /\ bodyBytes[p] = Doc(ServerStartT2, JObject(SourceB0))
        /\ s[p].Icestats.ServerStart = 403223

\* C11: of two successive calls that both read the same body and both
\* decoded it, the second sends the same up, server start, listeners and
\* stream start series as the first, the same parse failure count, and a
\* total scrapes count exactly 1 higher.
C11_RepeatedCycleSendsTheSame ==
    \A p \in Procs :
        (/\ Emitted(p)
         /\ failed[p] = ""
         /\ prev.set
         /\ prev.failed = ""
         /\ prev.body = bodyBytes[p]) =>
            /\ out[p].up = prev.out.up
            /\ out[p].serverStart = prev.out.serverStart
            /\ out[p].listeners = prev.out.listeners
            /\ out[p].streamStart = prev.out.streamStart
            /\ out[p].jsonParseFailures = prev.out.jsonParseFailures
            /\ out[p].totalScrapes = prev.out.totalScrapes + 1

C11_Witness ==
    \E p \in Procs :
        /\ Emitted(p)
        /\ failed[p] = ""
        /\ prev.set
        /\ prev.failed = ""
        /\ prev.body = bodyBytes[p]
        /\ bodyBytes[p] = Doc(ServerStartT1, JArray(<<SourceA5, SourceA7>>))
        /\ out[p].totalScrapes = 2

\* A call that was made returns, and a scrape that was started ends.
C12_EveryCallReturns ==
    \A p \in Procs :
        /\ (pc[p] # "idle") ~> (pc[p] = "idle")
        /\ (spc[p] \in {"inc", "get", "read", "send"}) ~>
               (spc[p] \in {"none", "closed", "done"})

\* A call whose Get or ReadAll ended in an error sends up = 0.
C12_UnansweredCallSendsUpZero ==
    \A p \in Procs :
        (Emitted(p) /\ failed[p] \in {"get", "read"}) => out[p].up = 0

\* C12: with callers running at once and every fetch ending, every call
\* returns, every scrape goroutine ends, and a call whose upstream did not
\* answer in time sends up = 0.
C12_Termination ==
    /\ C12_EveryCallReturns
    /\ []C12_UnansweredCallSendsUpZero

\* C13: a call's Get has an outcome only once the call holds the mutex and
\* has cleared the two vectors, and no two scrapes are between their Get and
\* their send at once.
C13_FetchAfterLockAndReset ==
    /\ \A p \in Procs :
          spc[p] \in {"read", "send", "closed", "done"} =>
              /\ mutex = p
              /\ pc[p] \in {"recv", "emit", "unlock"}
    /\ Cardinality({p \in Procs : spc[p] \in {"read", "send"}}) <= 1

\* The document carries a timestamp text that does not match the layout, in
\* server_start_iso8601 or in a source's stream_start_iso8601.
HasMalformedTime(doc) ==
    /\ doc.valid
    /\ \/ doc.server_start = Malformed
       \/ \E i \in 1..Len(DocSources(doc)) : DocSources(doc)[i].stream_start = Malformed

\* C14: a body in either shape with a timestamp that does not match the
\* layout fails both decodes; scrape sends no status, the call receives nil
\* and sends no series, and the parse failure count is exactly 1 higher than
\* before the call.
C14_MalformedTimeIsParseFailure ==
    \A p \in Procs :
        (bodyBytes[p] # NoBody /\ HasMalformedTime(bodyBytes[p])) =>
            /\ DecodeMulti(bodyBytes[p]).err
            /\ DecodeSingle(bodyBytes[p]).err
            /\ failed[p] = "json"
            /\ s[p] = Nil
            /\ got[p] = Nil
            /\ jsonParseFailures = entry.jsonParseFailures + 1
            /\ Emitted(p) =>
                 /\ NoSeries(out[p])
                 /\ out[p].jsonParseFailures = entry.jsonParseFailures + 1

C14_Witness ==
    \E p \in Procs :
        /\ Emitted(p)
        /\ bodyBytes[p] = Doc(ServerStartT1, JObject(SourceBad))
        /\ out[p].jsonParseFailures = 2
        /\ prev.set
        /\ prev.body = Doc(Malformed, JArray(<<SourceA5>>))

\* C15: a well-formed body whose "source" is an array of N records decodes
\* to N sources in the order of the array, fields copied; the call that
\* publishes them sends one series per distinct (listenurl, server_type)
\* pair, with the listeners and stream start of the last record of the array
\* that carries the pair.
C15_ArrayDecodedInOrderLastWins ==
    \A p \in Procs :
        (/\ bodyBytes[p] \in WellFormedDocs
         /\ bodyBytes[p].source.kind = "array") =>
            LET items == bodyBytes[p].source.items
                N == Len(items)
                Pairs == {DocPair(items[i]) : i \in 1..N}
                Last(pair) == CHOOSE i \in 1..N :
                                /\ DocPair(items[i]) = pair
                                /\ \A j \in (i + 1)..N : DocPair(items[j]) # pair
            IN /\ failed[p] = ""
               /\ spc[p] \in {"send", "done"}
               /\ Len(s[p].Icestats.Source) = N
               /\ \A i \in 1..N :
                    s[p].Icestats.Source[i] =
                        [Listeners |-> items[i].listeners,
                         Listenurl |-> items[i].listenurl,
                         ServerType |-> items[i].server_type,
                         StreamStart |-> ParseUnix(items[i].stream_start)]
               /\ Emitted(p) =>
                    /\ DOMAIN out[p].listeners = Pairs
                    /\ DOMAIN out[p].streamStart = Pairs
                    /\ \A pair \in Pairs :
                         /\ out[p].listeners[pair] = items[Last(pair)].listeners
                         /\ out[p].streamStart[pair] =
                              ParseUnix(items[Last(pair)].stream_start)

\* Two records under one pair followed by one under another: two series, the
\* first with the second record's 7 listeners, not 5 and not 12.
C15_Witness ==
    \E p \in Procs :
        /\ Emitted(p)
        /\ bodyBytes[p] = Doc(ServerStartT1, JArray(<<SourceA5, SourceA7>>))
        /\ Len(s[p].Icestats.Source) = 2
        /\ Cardinality(DOMAIN out[p].listeners) = 1
        /\ out[p].listeners[<<"/a", "audio/mpeg">>] = SourceA7.listeners
        /\ out[p].streamStart[<<"/a", "audio/mpeg">>] = ParseUnix(SourceA7.stream_start)

\* C16: the Get calls made are exactly one for each Collect call whose scrape
\* has come past line 191, whatever the outcome of the Get and of the
\* decodes; so when every call made has returned, as many Gets were made as
\* Collect calls.
C16_OneFetchPerCall ==
    /\ fetches = calls - Cardinality({p \in Procs : spc[p] \in {"inc", "get"}})
    /\ \A p \in Procs :
          pc[p] \in {"emit", "unlock"} => spc[p] \in {"closed", "done"}
    /\ NoCallRunning => fetches = calls

\* Two calls have returned, neither with a status and one after a failed
\* parse: two Gets were made.
C16_Witness ==
    /\ NoCallRunning
    /\ calls = 2
    /\ fetches = 2
    /\ jsonParseFailures = 1
    /\ serverStart = 0

\* The server start the previous call sent; 0 when there was none.
PrevServerStart == IF prev.set THEN prev.out.serverStart ELSE 0

\* A call whose Get, ReadAll or decodes failed sends the server start the
\* call before it sent, and no series.
C17_FailedCallSendsOldServerStart ==
    \A p \in Procs :
        (Emitted(p) /\ failed[p] # "") =>
            /\ out[p].serverStart = PrevServerStart
            /\ NoSeries(out[p])

\* A step that changes the server start is the receive of a status, by the
\* holder of the mutex.
C17_ServerStartWrittenOnReceive ==
    serverStart' # serverStart =>
        \E p \in Procs :
            /\ mutex = p
            /\ pc[p] = "recv"
            /\ ~s[p].nil
            /\ got'[p] = s[p]
            /\ serverStart' = s[p].Icestats.ServerStart

\* C17: a cycle that fails leaves the server start as the last successful
\* cycle set it (0 when none did): the call sends that value and no
\* per-stream series; the server start is written only by a call that
\* received a status.
C17_FailureKeepsServerStart ==
    /\ []C17_FailedCallSendsOldServerStart
    /\ [][C17_ServerStartWrittenOnReceive]_vars

\* A failed parse after a cycle that set the server start.
C17_Witness ==
    \E p \in Procs :
        /\ Emitted(p)
        /\ failed[p] = "json"
        /\ prev.set
        /\ prev.failed = ""
        /\ out[p].serverStart = ParseUnix(ServerStartT2)

\* A call past line 170 holds a status exactly when its own scrape got a
\* response, read the body and decoded it; the status is the decode of that
\* body, and the scrape has ended.
C18_ReceivedIsOwn ==
    \A p \in Procs :
        pc[p] \in {"emit", "unlock"} =>
            /\ ~got[p].nil <=> (failed[p] = "" /\ bodyBytes[p] # NoBody
                                  /\ ~Decode(bodyBytes[p]).err)
            /\ got[p].nil => spc[p] = "closed"
            /\ ~got[p].nil =>
                 /\ got[p] = Status(Decode(bodyBytes[p]).s)
                 /\ spc[p] = "done"

\* A scrape leaves its send only by the receive of its own call, which takes
\* the status the scrape holds; no other call's state moves in that step.
C18_SentOnceToOwnCall ==
    \A p \in Procs :
        (spc[p] = "send" /\ spc'[p] # "send") =>
            /\ spc'[p] = "done"
            /\ pc[p] = "recv" /\ pc'[p] = "emit"
            /\ mutex = p
            /\ got'[p] = s[p]
            /\ \A q \in Procs \ {p} :
                 got'[q] = got[q] /\ pc'[q] = pc[q] /\ spc'[q] = spc[q]

\* C18: with callers running at once, a call receives a status exactly when
\* its own scrape fetched and decoded, and nil otherwise; what a scrape sends
\* is received once, by its own call, also when the scrape reached its send
\* while its call was still waiting in Lock.
C18_HandOffOneToOne ==
    /\ []C18_ReceivedIsOwn
    /\ [][C18_SentOnceToOwnCall]_vars

\* Caller q has received nil and sent its metrics while the scrape of caller
\* p, who still waits in Lock, stands at its send.
C18_Witness ==
    \E p, q \in Procs :
        /\ p # q
        /\ Emitted(q)
        /\ got[q] = Nil
        /\ NoSeries(out[q])
        /\ pc[p] = "lock"
        /\ spc[p] = "send"
        /\ StatusPairs(s[p]) # {}

\* The calls that have sent their metrics: the calls made less those that
\* are still before line 178.
EmittedCount ==
    calls - Cardinality({q \in Procs : pc[q] \in {"lock", "reset", "recv", "emit"}})

\* The total scrapes count a call has sent is at least 1 and at least the
\* number of calls that have sent so far, this one among them.
C19_SentCountCoversTheSenders ==
    \A p \in Procs :
        Emitted(p) =>
            /\ out[p].totalScrapes >= 1
            /\ out[p].totalScrapes >= EmittedCount

\* In the step in which a call sends, the count it sends is the counter as
\* it stands and at most the number of calls made; the counter never goes
\* down, so neither do the counts sent one after the other.
C19_SentCountWithinCalls ==
    /\ totalScrapes' >= totalScrapes
    /\ \A p \in Procs :
          (out[p] = NoOut /\ out'[p] # NoOut) =>
              /\ out'[p].totalScrapes = totalScrapes
              /\ out'[p].totalScrapes <= calls

\* C19: with callers running at once, the exporter_total_scrapes a call
\* sends counts its own scrape: it is at least the number of calls that
\* have sent so far, this one included, never less than what an earlier
\* call sent, and at most the number of calls made so far.
C19_TotalScrapesSentIncludesOwn ==
    /\ []C19_SentCountCoversTheSenders
    /\ [][C19_SentCountWithinCalls]_vars

\* The first call to send sends 2: the other caller's scrape has already
\* counted itself.
C19_Witness ==
    \E p \in Procs :
        /\ Emitted(p)
        /\ EmittedCount = 1
        /\ out[p].totalScrapes = 2
====
